---- MODULE Spec2Model ----
(***************************************************************************)
(* Post-processing pipeline of the instance segmentation exercise          *)
(* (src/exercise.ipynb): compute_sdt, find_local_maxima,                   *)
(* watershed_from_boundary_distance and get_inner_mask.                    *)
(*                                                                         *)
(* Arrays are two-dimensional, as the masks of the exercise are: a shape   *)
(* is <<rows, cols>>, a pixel is <<i, j>> with 0-based indices, an array   *)
(* is a function on the pixels of its shape.                               *)
(***************************************************************************)
EXTENDS Integers, Sequences, FiniteSets, TLC

(* ------------------------------ bounds ------------------------------- *)
MaxRows == 2
MaxCols == 4
MaxCells == 4
MaxVal == 2
MaxOffset == 1
MaxMinDist == 3

(* A float that is not a number: it compares unequal to everything,       *)
(* itself included.  It is kept apart from every value a field can hold.  *)
NaN == -999999

VARIABLES
    pc,                  \* position inside the function being run
    shape,               \* the shape of the array the function is given
    boundary_distances,  \* argument: the field
    inner_mask,          \* argument: the boolean mask
    id_offset,           \* argument
    min_seed_distance,   \* argument
    seeds,               \* local: seed map
    n,                   \* local: number of seeds
    image,               \* watershed: the flooding landscape
    output,              \* watershed: labels written so far
    hp,                  \* watershed: the priority queue
    age,                 \* watershed: the age counter
    ret,                 \* the value the call returned
    labels,              \* compute_sdt argument: the label mask
    scale,               \* compute_sdt argument, in tenths
    axis,                \* compute_sdt: the loop variable
    bounds,              \* compute_sdt: the padded indicator of the axis
    axis_distances,      \* compute_sdt: its distance transform
    sampled,             \* compute_sdt: the distances at the pixel centres
    distances,           \* compute_sdt: the running minimum, then the result
    nhood,               \* compute_affinities argument: the list of offsets
    affinities,          \* create_aff_target: the affinity target
    relabeling,          \* the renaming of instance ids a second call is given
    previous,            \* the result of the call before the renaming
    trace,               \* the pixels the flooding took from the queue, in order
    snapshot,            \* the caller's arrays as they were handed over
    image_neg,           \* the watershed on the negated field: its landscape
    output_neg,          \* ... its labels written so far
    hp_neg,              \* ... its priority queue
    age_neg,             \* ... its age counter
    produced,            \* per finished call of a chain: its offset and labels
    test_dir,            \* notebook: the number of samples in tissuenet_data/test
    names,               \* notebook: the object each global name is bound to
    objects,             \* notebook: the datasets and loaders created so far
    iterator,            \* notebook: the loader a running for loop iterates
    drawn,               \* notebook: the sample or batch drawn last
    plots                \* notebook: the samples plotted so far

wsVars == <<boundary_distances, inner_mask, id_offset, min_seed_distance,
            seeds, n, image, output, hp, age>>

sdtVars == <<labels, scale, axis, bounds, axis_distances, sampled, distances>>

affVars == <<nhood, affinities, relabeling, previous>>

negVars == <<image_neg, output_neg, hp_neg, age_neg>>

nbVars == <<test_dir, names, objects, iterator, drawn, plots>>

envVars == <<trace, snapshot, negVars, produced, nbVars>>

vars == <<pc, shape, ret, wsVars, sdtVars, affVars, envVars>>

\* no caller is keeping track of its arrays
NegIdle == image_neg = <<>> /\ output_neg = <<>> /\ hp_neg = {} /\ age_neg = 0

TraceIdle == trace = <<>> /\ snapshot = <<>> /\ NegIdle /\ produced = <<>>

\* no notebook cell has run
NotebookIdle ==
    /\ test_dir = 0
    /\ names = <<>>
    /\ objects = <<>>
    /\ iterator = <<>>
    /\ drawn = <<>>
    /\ plots = <<>>

CallerIdle == TraceIdle /\ NotebookIdle

(* ------------------------------ arrays ------------------------------- *)
Shapes == {sh \in (1..MaxRows) \X (1..MaxCols) : sh[1] * sh[2] <= MaxCells}

Cells(sh) == (0..(sh[1] - 1)) \X (0..(sh[2] - 1))

\* position of a pixel in C (raster) order
Flat(c, sh) == c[1] * sh[2] + c[2]

Abs(x) == IF x < 0 THEN -x ELSE x

\* float comparisons: every comparison with NaN is false
FEq(a, b) == a # NaN /\ b # NaN /\ a = b
FGt(a, b) == a # NaN /\ b # NaN /\ a > b

Zeros(sh) == [c \in Cells(sh) |-> 0]

(* --------------------------- get_inner_mask --------------------------- *)
\* the comparison turned around: pred <= threshold
get_inner_mask_Inverted(pred, threshold) ==
    [c \in DOMAIN pred |-> ~FGt(pred[c], threshold)]

get_inner_mask(pred, threshold) ==
    [c \in DOMAIN pred |-> FGt(pred[c], threshold)]

(* ------------------ scipy.ndimage.maximum_filter ---------------------- *)
\* mode="reflect": (d c b a | a b c d | d c b a)
Reflect(i, len) ==
    LET m == (i + 2 * len * (MaxMinDist + 1)) % (2 * len)
    IN  IF m < len THEN m ELSE 2 * len - 1 - m

\* the window of a filter of the given size around index 0
WindowOffsets(size) == (-(size \div 2)) .. (size - (size \div 2) - 1)

\* the largest element; of a window of NaNs it is NaN
MaxOf(S) == CHOOSE m \in S : \A x \in S : x <= m

maximum_filter(field, sh, size) ==
    [c \in Cells(sh) |->
        MaxOf({ field[<<Reflect(c[1] + di, sh[1]), Reflect(c[2] + dj, sh[2])>>] :
                    di \in WindowOffsets(size), dj \in WindowOffsets(size) })]

(* ----------------------- scipy.ndimage.label -------------------------- *)
\* a full structuring element: diagonal neighbours too
Adjacent_Diagonal(a, b) ==
    a # b /\ Abs(a[1] - b[1]) <= 1 /\ Abs(a[2] - b[2]) <= 1

\* the default structuring element: neighbours along one axis only
Adjacent(a, b) == Abs(a[1] - b[1]) + Abs(a[2] - b[2]) = 1

RECURSIVE Grow(_, _)
Grow(S, cand) ==
    LET T == S \cup {c \in cand : \E d \in S : Adjacent(c, d)}
    IN  IF T = S THEN S ELSE Grow(T, cand)

Component(c, cand) == Grow({c}, cand)

FirstOf(S, sh) == CHOOSE c \in S : \A d \in S : Flat(c, sh) <= Flat(d, sh)

\* components are numbered in the order a raster scan meets them
label(maxima, sh) ==
    LET cand == {c \in Cells(sh) : maxima[c]}
        root == [c \in cand |-> FirstOf(Component(c, cand), sh)]
        roots == {root[c] : c \in cand}
        id == [r \in roots |-> Cardinality({q \in roots : Flat(q, sh) <= Flat(r, sh)})]
    IN  [seeds |-> [c \in Cells(sh) |-> IF maxima[c] THEN id[root[c]] ELSE 0],
         n |-> Cardinality(roots)]

(* ------------------------- find_local_maxima -------------------------- *)
\* the field compared with itself instead of with its maximum filter
find_local_maxima_NoFilter(distance_transform, sh, min_dist_between_points) ==
    label([c \in Cells(sh) |-> FEq(distance_transform[c], distance_transform[c])], sh)

\* a candidate must exceed its maximum filter instead of equalling it
find_local_maxima_Strict(distance_transform, sh, min_dist_between_points) ==
    LET max_filtered == maximum_filter(distance_transform, sh, min_dist_between_points)
        maxima == [c \in Cells(sh) |-> FGt(distance_transform[c], max_filtered[c])]
    IN  label(maxima, sh)

find_local_maxima(distance_transform, sh, min_dist_between_points) ==
    LET max_filtered == maximum_filter(distance_transform, sh, min_dist_between_points)
        maxima == [c \in Cells(sh) |-> FEq(max_filtered[c], distance_transform[c])]
    IN  label(maxima, sh)

(* ------------------ skimage.segmentation.watershed -------------------- *)
\* a watershed called without its mask keeps every marker
MaskMarkers_NoMask(markers, mask) == markers

\* markers outside the mask are dropped before the flooding starts
MaskMarkers(markers, mask) ==
    [c \in DOMAIN markers |-> IF mask[c] THEN markers[c] ELSE 0]

\* the queue orders by value, then by age
Smaller(a, b) == a.value < b.value \/ (a.value = b.value /\ a.age < b.age)

\* the neighbours of a pixel (connectivity 1), in the order they are visited
Neighbours(c) ==
    << <<c[1] - 1, c[2]>>, <<c[1], c[2] - 1>>, <<c[1], c[2] + 1>>, <<c[1] + 1, c[2]>> >>

\* a flooding that does not look at the mask
Floodable_NoMask(elem, sh, mask, out) ==
    LET ok(c) == c \in Cells(sh) /\ out[c] = 0
    IN  SelectSeq(Neighbours(elem.index), ok)

\* the neighbours of elem the flooding labels: inside the mask, not yet labeled
Floodable(elem, sh, mask, out) ==
    LET ok(c) == c \in Cells(sh) /\ mask[c] /\ out[c] = 0
    IN  SelectSeq(Neighbours(elem.index), ok)

(* ------------------ watershed_from_boundary_distance ------------------ *)
NoReturn == [kind |-> "none"]

\* seeds += id_offset, the zeros of the seed map included
OffsetSeeds_All(s, off) == [c \in DOMAIN s |-> s[c] + off]

\* the offset forgotten
OffsetSeeds_None(s, off) == s

\* seeds[seeds != 0] += id_offset
OffsetSeeds(s, off) == [c \in DOMAIN s |-> IF s[c] # 0 THEN s[c] + off ELSE 0]

\* np.float32 has 24 significant bits
Precision == 24

RECURSIVE Pow2(_)
Pow2(k) == IF k = 0 THEN 1 ELSE 2 * Pow2(k - 1)

\* every whole number below this one is a float
ExactBelow == Pow2(Precision)

RECURSIVE Ulp(_)
\* the spacing of the floats at x >= 0
Ulp(x) == IF x < ExactBelow THEN 1 ELSE 2 * Ulp(x \div 2)

\* the float nearest to x, a tie going to the even mantissa
RoundFloat(x) ==
    LET a == Abs(x)
        u == Ulp(a)
        q == a \div u
        r == a % u
        m == IF 2 * r < u \/ (2 * r = u /\ q % 2 = 0) THEN q * u ELSE (q + 1) * u
    IN  IF x < 0 THEN -m ELSE m

\* boundary_distances - boundary_distances.min(): low values flooded last
Landscape_Upward(field) ==
    LET low == -MaxOf({-field[c] : c \in DOMAIN field})
    IN  [c \in DOMAIN field |-> RoundFloat(field[c] - low)]

\* boundary_distances.max() - boundary_distances, a float subtraction
Landscape(field) ==
    LET top == MaxOf({field[c] : c \in DOMAIN field})
    IN  [c \in DOMAIN field |-> RoundFloat(top - field[c])]

\* -boundary_distances: a negation is exact
Negated(field) == [c \in DOMAIN field |-> -field[c]]

\* the fields a call can be given: finite values, or no number anywhere
Fields(sh) == [Cells(sh) -> 0..MaxVal] \cup {[c \in Cells(sh) |-> NaN]}

Init ==
    /\ pc = "call"
    /\ shape \in Shapes
    /\ boundary_distances \in Fields(shape)
    /\ inner_mask \in [Cells(shape) -> BOOLEAN]
    /\ id_offset \in 0..MaxOffset
    /\ min_seed_distance \in 1..MaxMinDist
    /\ seeds = Zeros(shape)
    /\ n = 0
    /\ image = Zeros(shape)
    /\ output = Zeros(shape)
    /\ hp = {}
    /\ age = 0
    /\ ret = NoReturn
    /\ labels = <<>>
    /\ scale = 0
    /\ axis = 0
    /\ bounds = <<>>
    /\ axis_distances = <<>>
    /\ sampled = <<>>
    /\ distances = <<>>
    /\ nhood = <<>>
    /\ affinities = <<>>
    /\ relabeling = <<>>
    /\ previous = <<>>
    /\ CallerIdle

\* seeds, n = find_local_maxima(boundary_distances, min_seed_distance)
FindSeeds ==
    /\ pc = "call"
    /\ LET r == find_local_maxima(boundary_distances, shape, min_seed_distance)
       IN  seeds' = r.seeds /\ n' = r.n
    /\ pc' = "seeded"
    /\ UNCHANGED <<sdtVars, affVars, envVars>>
    /\ UNCHANGED <<shape, boundary_distances, inner_mask, id_offset,
                   min_seed_distance, image, output, hp, age, ret>>

\* the zero-seed return without the id offset
ReturnNoSeeds_Bare ==
    /\ pc = "seeded"
    /\ n = 0
    /\ ret' = [kind |-> "array", seg |-> Zeros(shape), dtype |-> "uint64"]
    /\ pc' = "ret"
    /\ UNCHANGED <<sdtVars, affVars, envVars>>
    /\ UNCHANGED <<shape, boundary_distances, inner_mask, id_offset,
                   min_seed_distance, seeds, n, image, output, hp, age>>

\* the zero-seed return handing back a fresh offset of 0
ReturnNoSeeds_Reset ==
    /\ pc = "seeded"
    /\ n = 0
    /\ ret' = [kind |-> "tuple", seg |-> Zeros(shape), dtype |-> "uint64",
               offset |-> 0]
    /\ pc' = "ret"
    /\ UNCHANGED <<sdtVars, affVars, envVars>>
    /\ UNCHANGED <<shape, boundary_distances, inner_mask, id_offset,
                   min_seed_distance, seeds, n, image, output, hp, age>>

\* if n == 0: return np.zeros(boundary_distances.shape, dtype=np.uint64), id_offset
ReturnNoSeeds ==
    /\ pc = "seeded"
    /\ n = 0
    /\ ret' = [kind |-> "tuple", seg |-> Zeros(shape), dtype |-> "uint64",
               offset |-> id_offset]
    /\ pc' = "ret"
    /\ UNCHANGED <<sdtVars, affVars, envVars>>
    /\ UNCHANGED <<shape, boundary_distances, inner_mask, id_offset,
                   min_seed_distance, seeds, n, image, output, hp, age>>

\* the offset added in place to a seed map that shares its memory with the field
AddOffset_Aliased ==
    /\ pc = "seeded"
    /\ n # 0
    /\ seeds' = OffsetSeeds(seeds, id_offset)
    /\ boundary_distances' = [c \in DOMAIN boundary_distances |->
                                 IF seeds[c] # 0
                                 THEN boundary_distances[c] + id_offset
                                 ELSE boundary_distances[c]]
    /\ pc' = "offset"
    /\ UNCHANGED <<sdtVars, affVars, envVars>>
    /\ UNCHANGED <<shape, inner_mask, id_offset,
                   min_seed_distance, n, image, output, hp, age, ret>>

\* seeds[seeds != 0] += id_offset
AddOffset ==
    /\ pc = "seeded"
    /\ n # 0
    /\ seeds' = OffsetSeeds(seeds, id_offset)
    /\ pc' = "offset"
    /\ UNCHANGED <<sdtVars, affVars, envVars>>
    /\ UNCHANGED <<shape, boundary_distances, inner_mask, id_offset,
                   min_seed_distance, n, image, output, hp, age, ret>>

\* watershed(boundary_distances.max() - boundary_distances, seeds, mask=inner_mask):
\* the markers inside the mask are written to the output and queued
Start ==
    /\ pc = "offset"
    /\ DOMAIN inner_mask = Cells(shape)
    /\ image' = Landscape(boundary_distances)
    /\ output' = MaskMarkers(seeds, inner_mask)
    /\ hp' = {[value |-> image'[c], age |-> 0, index |-> c, source |-> c] :
                 c \in {d \in Cells(shape) : output'[d] # 0}}
    /\ age' = 1
    /\ pc' = "flood"
    /\ UNCHANGED <<shape, boundary_distances, inner_mask, id_offset,
                   min_seed_distance, seeds, n, ret>>

WatershedStart == Start /\ UNCHANGED <<sdtVars, affVars, envVars>>

\* one turn of the flooding loop: the smallest element leaves the queue, its
\* unlabeled neighbours inside the mask take its label and enter the queue
Flood ==
    /\ pc = "flood"
    /\ hp # {}
    /\ \E elem \in hp :
        /\ \A other \in hp : ~Smaller(other, elem)
        /\ LET new == Floodable(elem, shape, inner_mask, output)
           IN  /\ output' = [c \in Cells(shape) |->
                                IF \E k \in 1..Len(new) : new[k] = c
                                THEN output[elem.index] ELSE output[c]]
               /\ hp' = (hp \ {elem}) \cup
                        {[value |-> image[new[k]], age |-> age + k,
                          index |-> new[k], source |-> elem.source] :
                             k \in 1..Len(new)}
               /\ age' = age + Len(new)
    /\ UNCHANGED <<pc, shape, boundary_distances, inner_mask, id_offset,
                   min_seed_distance, seeds, n, image, ret>>

WatershedFlood == Flood /\ UNCHANGED <<sdtVars, affVars, envVars>>

\* return segmentation
ReturnSegmentation ==
    /\ pc = "flood"
    /\ hp = {}
    /\ ret' = [kind |-> "array", seg |-> output, dtype |-> "int32"]
    /\ pc' = "ret"
    /\ UNCHANGED <<sdtVars, affVars, envVars>>
    /\ UNCHANGED <<shape, boundary_distances, inner_mask, id_offset,
                   min_seed_distance, seeds, n, image, output, hp, age>>

Next ==
    \/ FindSeeds
    \/ ReturnNoSeeds
    \/ AddOffset
    \/ WatershedStart
    \/ WatershedFlood
    \/ ReturnSegmentation

Spec == Init /\ [][Next]_vars

(* ------------- a mask whose shape may differ from the field's ---------- *)
ValueError == [kind |-> "error", error |-> "ValueError"]

\* a watershed that takes a mask of another shape and labels nothing
WatershedRaise_Silent ==
    /\ pc = "offset"
    /\ DOMAIN inner_mask # Cells(shape)
    /\ ret' = [kind |-> "array", seg |-> Zeros(shape), dtype |-> "int32"]
    /\ pc' = "ret"
    /\ UNCHANGED <<sdtVars, affVars, envVars>>
    /\ UNCHANGED <<shape, boundary_distances, inner_mask, id_offset,
                   min_seed_distance, seeds, n, image, output, hp, age>>

\* watershed(...) validating its inputs: a mask whose shape is not the image's
\* raises ValueError, which leaves the function
WatershedRaise ==
    /\ pc = "offset"
    /\ DOMAIN inner_mask # Cells(shape)
    /\ ret' = ValueError
    /\ pc' = "ret"
    /\ UNCHANGED <<sdtVars, affVars, envVars>>
    /\ UNCHANGED <<shape, boundary_distances, inner_mask, id_offset,
                   min_seed_distance, seeds, n, image, output, hp, age>>

\* a call with a field and a mask of any two shapes; the mask is uniform, its
\* values are not read before its shape is
InitMismatch ==
    /\ pc = "call"
    /\ shape \in Shapes
    /\ boundary_distances \in Fields(shape)
    /\ \E mask_shape \in Shapes :
           inner_mask \in {[c \in Cells(mask_shape) |-> b] : b \in BOOLEAN}
    /\ id_offset \in 0..MaxOffset
    /\ min_seed_distance \in 1..MaxMinDist
    /\ seeds = Zeros(shape)
    /\ n = 0
    /\ image = Zeros(shape)
    /\ output = Zeros(shape)
    /\ hp = {}
    /\ age = 0
    /\ ret = NoReturn
    /\ labels = <<>>
    /\ scale = 0
    /\ axis = 0
    /\ bounds = <<>>
    /\ axis_distances = <<>>
    /\ sampled = <<>>
    /\ distances = <<>>
    /\ nhood = <<>>
    /\ affinities = <<>>
    /\ relabeling = <<>>
    /\ previous = <<>>
    /\ CallerIdle

NextMismatch ==
    \/ FindSeeds
    \/ ReturnNoSeeds
    \/ AddOffset
    \/ WatershedStart
    \/ WatershedRaise
    \/ WatershedFlood
    \/ ReturnSegmentation

SpecMismatch == InitMismatch /\ [][NextMismatch]_vars

(* ============================ compute_sdt ============================== *)
(* Real numbers are kept in thousandths.  A distance is a square root, a   *)
(* sample of the cubic spline a rational combination of square roots;      *)
(* both are rounded to the grid, a sample away from zero so that its sign  *)
(* survives.                                                               *)
Milli == 1000

\* np.inf
Inf == 99999999

MaxLabel == 2

\* scale, in tenths: 0.1, 1 and the default
DefaultScale == 5
Scales == {1, 10, 10 * DefaultScale}

\* the shape after np.pad of one element on both sides of the axis
PadShape(sh, ax) == IF ax = 0 THEN <<sh[1] + 1, sh[2]>> ELSE <<sh[1], sh[2] + 1>>

\* the pixel before c along the axis
Before(c, ax) == IF ax = 0 THEN <<c[1] - 1, c[2]>> ELSE <<c[1], c[2] - 1>>

Along(c, ax) == c[ax + 1]

\* constant_values=0
PadValue_Zero == FALSE

\* constant_values=1
PadValue == TRUE

\* labels[1:] <= labels[:-1]: a comparison that reads the order of the ids
PaddedBounds_Ordered(lab, sh, ax) ==
    [c \in Cells(PadShape(sh, ax)) |->
        IF Along(c, ax) = 0 \/ Along(c, ax) = sh[ax + 1]
        THEN PadValue
        ELSE lab[c] <= lab[Before(c, ax)]]

\* labels[1:] == labels[:-1] along the axis, padded on both sides of it
PaddedBounds(lab, sh, ax) ==
    [c \in Cells(PadShape(sh, ax)) |->
        IF Along(c, ax) = 0 \/ Along(c, ax) = sh[ax + 1]
        THEN PadValue
        ELSE lab[c] = lab[Before(c, ax)]]

(* ---------------- scipy.ndimage.distance_transform_edt ---------------- *)
RECURSIVE SqrtBetween(_, _, _)
\* the largest r in lo..hi with r * r <= x
SqrtBetween(x, lo, hi) ==
    IF lo = hi THEN lo
    ELSE LET mid == (lo + hi + 1) \div 2
         IN  IF mid * mid <= x THEN SqrtBetween(x, mid, hi)
             ELSE SqrtBetween(x, lo, mid - 1)

MaxSquare == (MaxRows + 2) * (MaxRows + 2) + (MaxCols + 2) * (MaxCols + 2)

\* the square root of a squared distance, in thousandths
SqrtMilli == [d \in 0..MaxSquare |->
                 SqrtBetween(d * Milli * Milli, 0, (MaxRows + MaxCols + 4) * Milli)]

SquaredDistance(a, b) ==
    (a[1] - b[1]) * (a[1] - b[1]) + (a[2] - b[2]) * (a[2] - b[2])

MinOf(S) == CHOOSE m \in S : \A x \in S : m <= x

\* the distance of every element to the nearest zero element; an input
\* without a zero element leaves the feature index at -1 on every axis
distance_transform_edt(input, sh) ==
    LET background == {c \in Cells(sh) : ~input[c]}
    IN  [c \in Cells(sh) |->
            IF background = {}
            THEN SqrtMilli[SquaredDistance(c, <<-1, -1>>)]
            ELSE SqrtMilli[MinOf({SquaredDistance(c, z) : z \in background})]]

(* ------------- scipy.ndimage.map_coordinates, order=3 ----------------- *)
(* The cubic spline through len samples with mirrored ends: its            *)
(* coefficients c solve c[i-1] + 4 c[i] + c[i+1] = 6 s[i], the matrix is   *)
(* tridiagonal and is inverted by its leading and trailing minors.         *)
Upper(len, i) == IF i = 1 THEN 2 ELSE 1
Lower(len, i) == IF i = len - 1 THEN 2 ELSE 1

RECURSIVE Leading(_, _)
Leading(len, i) ==
    IF i = 0 THEN 1
    ELSE IF i = 1 THEN 4
    ELSE 4 * Leading(len, i - 1)
           - Upper(len, i - 1) * Lower(len, i - 1) * Leading(len, i - 2)

RECURSIVE Trailing(_, _)
Trailing(len, i) ==
    IF i = len + 1 THEN 1
    ELSE IF i = len THEN 4
    ELSE 4 * Trailing(len, i + 1)
           - Upper(len, i) * Lower(len, i) * Trailing(len, i + 2)

\* entry (i, j) of the inverse, times the determinant Leading(len, len)
Cofactor(len, i, j) ==
    LET sign == IF (i + j) % 2 = 0 THEN 1 ELSE -1
    IN  IF i = j THEN Leading(len, i - 1) * Trailing(len, i + 1)
        ELSE IF i < j
        THEN sign * (IF i = 1 THEN 2 ELSE 1)
                  * Leading(len, i - 1) * Trailing(len, j + 1)
        ELSE sign * (IF i = len THEN 2 ELSE 1)
                  * Leading(len, j - 1) * Trailing(len, i + 1)

\* a coefficient index beyond an end is mirrored about that end
Mirror(i, len) == IF i < 1 THEN 2 - i ELSE IF i > len THEN 2 * len - i ELSE i

MaxLen == IF MaxRows >= MaxCols THEN MaxRows + 1 ELSE MaxCols + 1

\* SplineTaps[len][k][j] / (8 * SplineDet[len]) is the weight of sample j
\* (of 1..len) in the value of the spline halfway between samples k and k+1:
\* the B-spline weights there are 1/48, 23/48, 23/48, 1/48
SplineTaps ==
    [len \in 2..MaxLen |->
        [k \in 1..(len - 1) |->
            [j \in 1..len |->
                Cofactor(len, Mirror(k - 1, len), j) + 23 * Cofactor(len, k, j)
                + 23 * Cofactor(len, k + 1, j) + Cofactor(len, Mirror(k + 2, len), j)]]]

SplineDet == [len \in 2..MaxLen |-> Leading(len, len)]

RECURSIVE Dot(_, _, _)
\* w[1] * s[1] + ... + w[j] * s[j]
Dot(w, s, j) == IF j = 0 THEN 0 ELSE w[j] * s[j] + Dot(w, s, j - 1)

\* num / den rounded to an integer, away from zero
RoundAway(num, den) ==
    IF num >= 0 THEN (num + den - 1) \div den ELSE -((den - num - 1) \div den)

\* the samples of the line through pixel c along the axis
Line(a, c, ax, len) ==
    [j \in 1..len |-> a[IF ax = 0 THEN <<j - 1, c[2]>> ELSE <<c[1], j - 1>>]]

\* the array sampled at np.linspace(0.5, len - 1.5, n) along the axis (halfway
\* between its elements) and at the integers along the other axis
map_coordinates(input, sh, ax) ==
    LET len == sh[ax + 1] + 1
    IN  [c \in Cells(sh) |->
            RoundAway(Dot(SplineTaps[len][Along(c, ax) + 1],
                          Line(input, c, ax, len), len),
                      8 * SplineDet[len])]

\* np.minimum
minimum(a, b) == [c \in DOMAIN a |-> IF b[c] < a[c] THEN b[c] ELSE a[c]]

(* ------------------------------ np.tanh -------------------------------- *)
(* A result of tanh is kept by its argument, which orders and signs it:    *)
(* w stands for the double nearest to tanh(w / Milli).  From the argument   *)
(* TanhOne on, that double is exactly 1.0.                                  *)
TanhOne == 19062

\* distances / scale without the squash
tanh_Missing(x, sc) == RoundAway(10 * x, sc)

\* np.tanh(x / scale), scale in tenths
tanh(x, sc) ==
    LET q == RoundAway(10 * x, sc)
    IN  IF q >= TanhOne THEN TanhOne ELSE IF q <= -TanhOne THEN -TanhOne ELSE q

\* distances[labels == 0] *= -1
FlipBackground(d, lab) == [c \in DOMAIN d |-> IF lab[c] = 0 THEN -d[c] ELSE d[c]]

InitSdt ==
    /\ pc = "sdt_loop"
    /\ shape \in Shapes
    /\ labels \in [Cells(shape) -> 0..MaxLabel]
    /\ scale \in Scales
    /\ axis = 0
    /\ bounds = <<>>
    /\ axis_distances = <<>>
    /\ sampled = <<>>
    /\ distances = [c \in Cells(shape) |-> Inf]
    /\ ret = NoReturn
    /\ boundary_distances = <<>>
    /\ inner_mask = <<>>
    /\ id_offset = 0
    /\ min_seed_distance = 0
    /\ seeds = <<>>
    /\ n = 0
    /\ image = <<>>
    /\ output = <<>>
    /\ hp = {}
    /\ age = 0
    /\ nhood = <<>>
    /\ affinities = <<>>
    /\ relabeling = <<>>
    /\ previous = <<>>
    /\ CallerIdle

\* for axis in range(dims): bounds = (labels[1:] == labels[:-1]); np.pad
SdtBounds ==
    /\ pc = "sdt_loop"
    /\ axis < 2
    /\ bounds' = PaddedBounds(labels, shape, axis)
    /\ pc' = "sdt_edt"
    /\ UNCHANGED <<wsVars, affVars, envVars>>
    /\ UNCHANGED <<shape, ret, labels, scale, axis, axis_distances, sampled, distances>>

\* axis_distances = distance_transform_edt(bounds)
SdtDistance ==
    /\ pc = "sdt_edt"
    /\ axis_distances' = distance_transform_edt(bounds, PadShape(shape, axis))
    /\ pc' = "sdt_sample"
    /\ UNCHANGED <<wsVars, affVars, envVars>>
    /\ UNCHANGED <<shape, ret, labels, scale, axis, bounds, sampled, distances>>

\* sampled = map_coordinates(...); distances = np.minimum(distances, sampled)
SdtSample ==
    /\ pc = "sdt_sample"
    /\ sampled' = map_coordinates(axis_distances, shape, axis)
    /\ distances' = minimum(distances, sampled')
    /\ axis' = axis + 1
    /\ pc' = "sdt_loop"
    /\ UNCHANGED <<wsVars, affVars, envVars>>
    /\ UNCHANGED <<shape, ret, labels, scale, bounds, axis_distances>>

\* distances = np.tanh(distances / scale)
SdtTanh ==
    /\ pc = "sdt_loop"
    /\ axis = 2
    /\ distances' = [c \in Cells(shape) |-> tanh(distances[c], scale)]
    /\ pc' = "sdt_flip"
    /\ UNCHANGED <<wsVars, affVars, envVars>>
    /\ UNCHANGED <<shape, ret, labels, scale, axis, bounds, axis_distances, sampled>>

\* distances[labels == 0] *= -1
SdtFlip ==
    /\ pc = "sdt_flip"
    /\ distances' = FlipBackground(distances, labels)
    /\ pc' = "sdt_return"
    /\ UNCHANGED <<wsVars, affVars, envVars>>
    /\ UNCHANGED <<shape, ret, labels, scale, axis, bounds, axis_distances, sampled>>

\* return distances
SdtReturn ==
    /\ pc = "sdt_return"
    /\ ret' = [kind |-> "array", seg |-> distances, dtype |-> "float64"]
    /\ pc' = "sdt_done"
    /\ UNCHANGED <<wsVars, affVars, envVars>>
    /\ UNCHANGED <<shape, labels, scale, axis, bounds, axis_distances, sampled, distances>>

NextSdt ==
    \/ SdtBounds
    \/ SdtDistance
    \/ SdtSample
    \/ SdtTanh
    \/ SdtFlip
    \/ SdtReturn

SpecSdt == InitSdt /\ [][NextSdt]_vars

(* ====================== the pipeline, end to end ======================= *)
\* a mask of zeros with a 2x2 square of one instance, its corner at the pixel
SquareMask(sh, corner, id) ==
    [c \in Cells(sh) |->
        IF /\ corner[1] <= c[1] /\ c[1] <= corner[1] + 1
           /\ corner[2] <= c[2] /\ c[2] <= corner[2] + 1
        THEN id ELSE 0]

\* compute_sdt is called on a 4x4 mask holding one square of value 7
InitPipeline ==
    /\ pc = "sdt_loop"
    /\ shape = <<4, 4>>
    /\ labels \in {SquareMask(shape, corner, 7) : corner \in (0..2) \X (0..2)}
    /\ scale \in Scales
    /\ axis = 0
    /\ bounds = <<>>
    /\ axis_distances = <<>>
    /\ sampled = <<>>
    /\ distances = [c \in Cells(shape) |-> Inf]
    /\ ret = NoReturn
    /\ boundary_distances = <<>>
    /\ inner_mask = <<>>
    /\ id_offset = 0
    /\ min_seed_distance = 0
    /\ seeds = <<>>
    /\ n = 0
    /\ image = <<>>
    /\ output = <<>>
    /\ hp = {}
    /\ age = 0
    /\ nhood = <<>>
    /\ affinities = <<>>
    /\ relabeling = <<>>
    /\ previous = <<>>
    /\ CallerIdle

\* inner_mask = get_inner_mask(sdt, threshold=0);
\* watershed_from_boundary_distance(sdt, inner_mask, id_offset, min_seed_distance)
Postprocess ==
    /\ pc = "sdt_done"
    /\ boundary_distances' = ret.seg
    /\ inner_mask' = get_inner_mask(ret.seg, 0)
    /\ id_offset' \in 0..MaxOffset
    /\ min_seed_distance' \in 1..MaxMinDist
    /\ seeds' = Zeros(shape)
    /\ n' = 0
    /\ image' = Zeros(shape)
    /\ output' = Zeros(shape)
    /\ hp' = {}
    /\ age' = 0
    /\ ret' = NoReturn
    /\ pc' = "call"
    /\ UNCHANGED <<shape, sdtVars, affVars, envVars>>

\* a field of finite values always has a seed: the zero-seed return is not
\* among the steps of this run
NextPipeline ==
    \/ NextSdt
    \/ Postprocess
    \/ FindSeeds
    \/ AddOffset
    \/ WatershedStart
    \/ WatershedFlood
    \/ ReturnSegmentation

SpecPipeline == InitPipeline /\ [][NextPipeline]_vars

(* ================== a caller repeating its calls ======================= *)
\* the caller hands a label mask to compute_sdt and keeps what it handed over
InitCalls ==
    /\ pc = "sdt_loop"
    /\ shape \in Shapes
    /\ labels \in [Cells(shape) -> 0..MaxLabel]
    /\ scale \in Scales
    /\ axis = 0
    /\ bounds = <<>>
    /\ axis_distances = <<>>
    /\ sampled = <<>>
    /\ distances = [c \in Cells(shape) |-> Inf]
    /\ ret = NoReturn
    /\ boundary_distances = <<>>
    /\ inner_mask = <<>>
    /\ id_offset = 0
    /\ min_seed_distance = 0
    /\ seeds = <<>>
    /\ n = 0
    /\ image = <<>>
    /\ output = <<>>
    /\ hp = {}
    /\ age = 0
    /\ nhood = <<>>
    /\ affinities = <<>>
    /\ relabeling = <<>>
    /\ previous = <<>>
    /\ trace = <<>>
    /\ snapshot = [labels |-> labels, pred |-> <<>>, inner_mask |-> <<>>]
    /\ NegIdle
    /\ produced = <<>>
    /\ NotebookIdle

\* inner_mask = get_inner_mask(pred, threshold);
\* watershed_from_boundary_distance(pred, inner_mask, id_offset, min_seed_distance):
\* the first time the caller picks the arguments, the second time it gives the
\* same ones
CallerPostprocess ==
    /\ pc = "sdt_done"
    /\ boundary_distances' = ret.seg
    /\ inner_mask' = get_inner_mask(ret.seg, 0)
    /\ IF previous = <<>>
       THEN /\ id_offset' \in 0..MaxOffset
            /\ min_seed_distance' \in 1..MaxMinDist
            /\ snapshot' = [snapshot EXCEPT !.pred = boundary_distances',
                                            !.inner_mask = inner_mask']
       ELSE UNCHANGED <<id_offset, min_seed_distance, snapshot>>
    /\ seeds' = Zeros(shape)
    /\ n' = 0
    /\ image' = Zeros(shape)
    /\ output' = Zeros(shape)
    /\ hp' = {}
    /\ age' = 0
    /\ ret' = NoReturn
    /\ pc' = "call"
    /\ UNCHANGED <<shape, sdtVars, affVars, trace, negVars, produced, nbVars>>

\* the flooding of the first call; the caller notes which pixel left the queue
WatershedFloodFirst ==
    /\ previous = <<>>
    /\ Flood
    /\ trace' = Append(trace, (CHOOSE e \in hp : e \notin hp').index)
    /\ UNCHANGED <<sdtVars, affVars, snapshot, negVars, produced, nbVars>>

\* the flooding of the repeated call: the queue, filled in the same way, gives
\* out its elements in the same order
WatershedFloodAgain ==
    /\ previous # <<>>
    /\ trace # <<>>
    /\ Flood
    /\ \A e \in hp \ hp' : e.index = Head(trace)
    /\ trace' = Tail(trace)
    /\ UNCHANGED <<sdtVars, affVars, snapshot, negVars, produced, nbVars>>

\* the caller keeps the results and calls again with the arrays it still holds
CallAgain ==
    /\ pc = "ret"
    /\ previous = <<>>
    /\ previous' = [sdt |-> boundary_distances, seg |-> ret]
    /\ ret' = NoReturn
    /\ axis' = 0
    /\ bounds' = <<>>
    /\ axis_distances' = <<>>
    /\ sampled' = <<>>
    /\ distances' = [c \in Cells(shape) |-> Inf]
    /\ pc' = "sdt_loop"
    /\ UNCHANGED <<shape, wsVars, envVars>>
    /\ UNCHANGED <<labels, scale, nhood, affinities, relabeling>>

NextCalls ==
    \/ NextSdt
    \/ CallerPostprocess
    \/ FindSeeds
    \/ AddOffset
    \/ WatershedStart
    \/ WatershedFloodFirst
    \/ WatershedFloodAgain
    \/ ReturnSegmentation
    \/ CallAgain

SpecCalls == InitCalls /\ [][NextCalls]_vars

(* ============ the landscape of the code and the negated field ========== *)
WideCols == 5

\* a row long enough for a pixel both seeds reach, and a square
WideShapes == {<<1, WideCols>>, <<2, 2>>}

\* a float so large that not every whole number next to it is a float
Big == 2 * ExactBelow

\* fields of small and large floats, or no number anywhere
FloatFields(sh) == [Cells(sh) -> {0, 1, 2, Big}] \cup {[c \in Cells(sh) |-> NaN]}

MaxMasked == 1

\* masks that leave out at most MaxMasked pixels
WideMasks(sh) ==
    {m \in [Cells(sh) -> BOOLEAN] :
        Cardinality({c \in Cells(sh) : ~m[c]}) <= MaxMasked}

InitLandscape ==
    /\ pc = "call"
    /\ shape \in WideShapes
    /\ boundary_distances \in FloatFields(shape)
    /\ inner_mask \in WideMasks(shape)
    /\ id_offset = 0
    /\ min_seed_distance \in 1..MaxMinDist
    /\ seeds = Zeros(shape)
    /\ n = 0
    /\ image = Zeros(shape)
    /\ output = Zeros(shape)
    /\ hp = {}
    /\ age = 0
    /\ ret = NoReturn
    /\ labels = <<>>
    /\ scale = 0
    /\ axis = 0
    /\ bounds = <<>>
    /\ axis_distances = <<>>
    /\ sampled = <<>>
    /\ distances = <<>>
    /\ nhood = <<>>
    /\ affinities = <<>>
    /\ relabeling = <<>>
    /\ previous = <<>>
    /\ trace = <<>>
    /\ snapshot = <<>>
    /\ image_neg = Zeros(shape)
    /\ output_neg = Zeros(shape)
    /\ hp_neg = {}
    /\ age_neg = 0
    /\ produced = <<>>
    /\ NotebookIdle

\* the watershed call of the code, and beside it
\* watershed(-boundary_distances, seeds, mask=inner_mask)
WatershedStartBoth ==
    /\ Start
    /\ image_neg' = Negated(boundary_distances)
    /\ output_neg' = MaskMarkers(seeds, inner_mask)
    /\ hp_neg' = {[value |-> image_neg'[c], age |-> 0, index |-> c, source |-> c] :
                     c \in {d \in Cells(shape) : output_neg'[d] # 0}}
    /\ age_neg' = 1
    /\ UNCHANGED <<sdtVars, affVars, trace, snapshot, produced, nbVars>>

\* a smallest element of the queue
Least(elem, queue) == elem \in queue /\ \A other \in queue : ~Smaller(other, elem)

\* one turn of the flooding loop on the negated field; where its queue can give
\* out the pixel the code's queue gave out, it does
FloodNegated(idx) ==
    \E elem \in hp_neg :
        /\ Least(elem, hp_neg)
        /\ (\E same \in hp_neg : same.index = idx /\ Least(same, hp_neg))
               => elem.index = idx
        /\ LET new == Floodable(elem, shape, inner_mask, output_neg)
           IN  /\ output_neg' = [c \in Cells(shape) |->
                                    IF \E k \in 1..Len(new) : new[k] = c
                                    THEN output_neg[elem.index] ELSE output_neg[c]]
               /\ hp_neg' = (hp_neg \ {elem}) \cup
                            {[value |-> image_neg[new[k]], age |-> age_neg + k,
                              index |-> new[k], source |-> elem.source] :
                                 k \in 1..Len(new)}
               /\ age_neg' = age_neg + Len(new)
    /\ UNCHANGED image_neg

WatershedFloodBoth ==
    /\ Flood
    /\ hp_neg # {}
    /\ FloodNegated((CHOOSE e \in hp : e \notin hp').index)
    /\ UNCHANGED <<sdtVars, affVars, trace, snapshot, produced, nbVars>>

NextLandscape ==
    \/ FindSeeds
    \/ ReturnNoSeeds
    \/ AddOffset
    \/ WatershedStartBoth
    \/ WatershedFloodBoth
    \/ ReturnSegmentation

SpecLandscape == InitLandscape /\ [][NextLandscape]_vars

(* ========================= compute_affinities ========================== *)
\* the offset list of the exercise
NotebookOffsets == << <<0, 1>>, <<1, 0>> >>

\* offset lists a call can be given
Nhoods == { NotebookOffsets,
            << <<0, -1>>, <<-1, 0>> >>,
            << <<1, 1>> >>,
            << <<0, 2>>, <<1, -1>>, <<0, 1>> >> }

\* the neighbour of pixel c at the offset
Shifted(c, offset) == <<c[1] + offset[1], c[2] + offset[2]>>

\* a channel that is 1 where the pixel's id is not above its neighbour's
compute_affinities_Ordered(seg, sh, nh) ==
    [e \in 1..Len(nh) |->
        [c \in Cells(sh) |->
            IF /\ Shifted(c, nh[e]) \in Cells(sh)
               /\ seg[c] # 0
               /\ seg[Shifted(c, nh[e])] # 0
               /\ seg[c] <= seg[Shifted(c, nh[e])]
            THEN 1 ELSE 0]]

\* one channel per offset: 1 where the pixel and its neighbour at the offset
\* share the same non-zero label, 0 where they do not, where either is
\* background and where the neighbour lies outside the array
compute_affinities(seg, sh, nh) ==
    [e \in 1..Len(nh) |->
        [c \in Cells(sh) |->
            IF /\ Shifted(c, nh[e]) \in Cells(sh)
               /\ seg[c] # 0
               /\ seg[c] = seg[Shifted(c, nh[e])]
            THEN 1 ELSE 0]]

\* the renamings of the instance ids: one to one, 0 stays 0
Relabelings ==
    {f \in [0..MaxLabel -> 0..(MaxLabel + 1)] :
        /\ f[0] = 0
        /\ \A a, b \in 0..MaxLabel : a # b => f[a] # f[b]}

Relabeled(lab, f) == [c \in DOMAIN lab |-> f[lab[c]]]

InitAff ==
    /\ pc = "aff_call"
    /\ shape \in Shapes
    /\ labels \in [Cells(shape) -> 0..MaxLabel]
    /\ nhood \in Nhoods
    /\ relabeling \in Relabelings
    /\ affinities = <<>>
    /\ previous = <<>>
    /\ CallerIdle
    /\ ret = NoReturn
    /\ scale = 0
    /\ axis = 0
    /\ bounds = <<>>
    /\ axis_distances = <<>>
    /\ sampled = <<>>
    /\ distances = <<>>
    /\ boundary_distances = <<>>
    /\ inner_mask = <<>>
    /\ id_offset = 0
    /\ min_seed_distance = 0
    /\ seeds = <<>>
    /\ n = 0
    /\ image = <<>>
    /\ output = <<>>
    /\ hp = {}
    /\ age = 0

\* aff_target_array = compute_affinities(np.asarray(mask), offsets)
CreateAffTarget ==
    /\ pc = "aff_call"
    /\ affinities' = compute_affinities(labels, shape, nhood)
    /\ pc' = "aff_done"
    /\ UNCHANGED <<wsVars, sdtVars, envVars>>
    /\ UNCHANGED <<shape, ret, nhood, relabeling, previous>>

\* the same mask with its instance ids renamed is given to a second call
RelabelMask ==
    /\ pc = "aff_done"
    /\ previous = <<>>
    /\ previous' = affinities
    /\ labels' = Relabeled(labels, relabeling)
    /\ pc' = "aff_call"
    /\ UNCHANGED <<wsVars, envVars>>
    /\ UNCHANGED <<shape, ret, scale, axis, bounds, axis_distances, sampled,
                   distances, nhood, affinities, relabeling>>

NextAff ==
    \/ CreateAffTarget
    \/ RelabelMask

SpecAff == InitAff /\ [][NextAff]_vars

(* ============ compute_sdt on two masks with the same layout ============ *)
\* the same pairs of neighbours along an axis carry equal labels in both masks
SameAdjacency(a, b, sh) ==
    \A ax \in {0, 1} : \A c \in Cells(sh) :
        Along(c, ax) > 0 => ((a[c] = a[Before(c, ax)]) <=> (b[c] = b[Before(c, ax)]))

\* the masks a caller may pass next: any ids, the same layout of neighbours
SameLayout(lab, sh) ==
    {other \in [Cells(sh) -> 0..(MaxLabel + 1)] : SameAdjacency(lab, other, sh)}

InitLayout ==
    /\ pc = "sdt_loop"
    /\ shape \in Shapes
    /\ labels \in [Cells(shape) -> 0..MaxLabel]
    /\ scale \in Scales
    /\ axis = 0
    /\ bounds = <<>>
    /\ axis_distances = <<>>
    /\ sampled = <<>>
    /\ distances = [c \in Cells(shape) |-> Inf]
    /\ ret = NoReturn
    /\ boundary_distances = <<>>
    /\ inner_mask = <<>>
    /\ id_offset = 0
    /\ min_seed_distance = 0
    /\ seeds = <<>>
    /\ n = 0
    /\ image = <<>>
    /\ output = <<>>
    /\ hp = {}
    /\ age = 0
    /\ nhood = <<>>
    /\ affinities = <<>>
    /\ relabeling = <<>>
    /\ previous = <<>>
    /\ CallerIdle

\* compute_sdt is called again, on a mask with other ids in the same layout;
\* the first call's mask and result are kept for comparison
SdtCallAgain ==
    /\ pc = "sdt_done"
    /\ previous = <<>>
    /\ previous' = [labels |-> labels, out |-> ret.seg]
    /\ labels' \in SameLayout(labels, shape)
    /\ axis' = 0
    /\ bounds' = <<>>
    /\ axis_distances' = <<>>
    /\ sampled' = <<>>
    /\ distances' = [c \in Cells(shape) |-> Inf]
    /\ ret' = NoReturn
    /\ pc' = "sdt_loop"
    /\ UNCHANGED <<wsVars, envVars>>
    /\ UNCHANGED <<shape, scale, nhood, affinities, relabeling>>

NextLayout ==
    \/ SdtBounds
    \/ SdtDistance
    \/ SdtSample
    \/ SdtTanh
    \/ SdtFlip
    \/ SdtReturn
    \/ SdtCallAgain

SpecLayout == InitLayout /\ [][NextLayout]_vars

(* ======== a chain of calls over separate tiles, ids kept apart ========= *)
\* the number of tiles of a chain
MaxTiles == 3

\* every tile is a row of three pixels
TileShapes == {<<1, 3>>}

\* the distances between seeds a chain is run with
TileMinDists == {1, 2}

\* the positive labels of a segmentation
PositiveLabels(seg) == {seg[c] : c \in DOMAIN seg} \ {0}

\* the largest label the finished calls have produced, 0 if none
LargestLabel(calls) ==
    MaxOf({0} \cup UNION {calls[i].labels : i \in 1..Len(calls)})

\* what the caller notes of the call that has returned
Noted ==
    [offset |-> id_offset,
     seeds  |-> n,
     labels |-> PositiveLabels(ret.seg),
     handed |-> IF ret.kind = "tuple" THEN ret.offset ELSE -1]

\* the offsets a caller that keeps ids apart gives the next call: the largest
\* label so far or more, the previous offset plus the previous seed count,
\* or the offset a zero-seed call handed back
NextOffsets(calls) ==
    LET last == calls[Len(calls)]
    IN  (LargestLabel(calls)..(LargestLabel(calls) + MaxOffset))
        \cup {last.offset + last.seeds}
        \cup (IF last.handed >= 0 THEN {last.handed} ELSE {})

InitChain ==
    /\ pc = "call"
    /\ shape \in TileShapes
    /\ boundary_distances \in Fields(shape)
    /\ inner_mask \in WideMasks(shape)
    /\ id_offset \in 0..MaxOffset
    /\ min_seed_distance \in TileMinDists
    /\ seeds = Zeros(shape)
    /\ n = 0
    /\ image = Zeros(shape)
    /\ output = Zeros(shape)
    /\ hp = {}
    /\ age = 0
    /\ ret = NoReturn
    /\ labels = <<>>
    /\ scale = 0
    /\ axis = 0
    /\ bounds = <<>>
    /\ axis_distances = <<>>
    /\ sampled = <<>>
    /\ distances = <<>>
    /\ nhood = <<>>
    /\ affinities = <<>>
    /\ relabeling = <<>>
    /\ previous = <<>>
    /\ CallerIdle

\* the caller notes the returned call and calls the function on the next
\* tile, until the chain has MaxTiles calls
NextTile ==
    /\ pc = "ret"
    /\ produced' = Append(produced, Noted)
    /\ IF Len(produced') < MaxTiles
       THEN /\ pc' = "call"
            /\ shape' \in TileShapes
            /\ boundary_distances' \in Fields(shape')
            /\ inner_mask' \in WideMasks(shape')
            /\ id_offset' \in NextOffsets(produced')
            /\ min_seed_distance' \in TileMinDists
            /\ seeds' = Zeros(shape')
            /\ n' = 0
            /\ image' = Zeros(shape')
            /\ output' = Zeros(shape')
            /\ hp' = {}
            /\ age' = 0
            /\ ret' = NoReturn
       ELSE /\ pc' = "chain_done"
            /\ UNCHANGED <<shape, ret, wsVars>>
    /\ UNCHANGED <<sdtVars, affVars, trace, snapshot, negVars, nbVars>>

NextChain ==
    \/ FindSeeds
    \/ ReturnNoSeeds
    \/ AddOffset
    \/ WatershedStart
    \/ WatershedFlood
    \/ ReturnSegmentation
    \/ NextTile

SpecChain == InitChain /\ [][NextChain]_vars

(* ================= the notebook's cells, run in order ================== *)
\* the largest number of samples tissuenet_data/test holds
MaxSamples == 4

\* the global names the evaluation cells bind
Names == {"val_data", "val_loader", "val_dataset", "val_dataloader", "idx"}

\* no object: the name is not bound
Unbound == 0

\* SDTDataset(root_dir, transform, return_mask): reads the nuclei masks
SDTDataset(transform, return_mask) ==
    [class |-> "SDTDataset", masks |-> "nuclei_masks", transform |-> transform,
     return_mask |-> return_mask, num_samples |-> test_dir, dataset |-> Unbound]

\* AffinityDataset(root_dir, transform, return_mask): reads the cyto masks
AffinityDataset(transform, return_mask) ==
    [class |-> "AffinityDataset", masks |-> "cyto_masks", transform |-> transform,
     return_mask |-> return_mask, num_samples |-> test_dir, dataset |-> Unbound]

\* DataLoader(dataset, batch_size=1, shuffle=False): keeps the object it is given
DataLoader(heap, dataset) ==
    [class |-> "DataLoader", masks |-> "", transform |-> "",
     return_mask |-> FALSE, num_samples |-> heap[dataset].num_samples,
     dataset |-> dataset]

\* the heap after dataset = ...; loader = DataLoader(dataset, ...)
WithLoader(heap, dataset) ==
    LET held == Append(heap, dataset)
    IN  Append(held, DataLoader(held, Len(held)))

\* dataset[k]: __getitem__ of the dataset object
GetItem(heap, dataset, k) ==
    LET ds == heap[dataset]
        target == IF ds.class = "SDTDataset" THEN "sdt" ELSE "aff_mask"
    IN  [dataset |-> dataset,
         sample  |-> k,
         masks   |-> ds.masks,
         fields  |-> IF ds.return_mask THEN <<"image", "mask", target>>
                     ELSE <<"image", target>>]

\* the object a new object is stored as
Fresh(heap) == Len(heap) + 1

InitNotebook ==
    /\ pc = "nb_sdt_look"
    /\ test_dir \in 1..MaxSamples
    /\ names = [v \in Names |-> Unbound]
    /\ objects = <<>>
    /\ iterator = <<>>
    /\ drawn = <<>>
    /\ plots = <<>>
    /\ TraceIdle
    /\ shape = <<>>
    /\ ret = NoReturn
    /\ boundary_distances = <<>>
    /\ inner_mask = <<>>
    /\ id_offset = 0
    /\ min_seed_distance = 0
    /\ seeds = <<>>
    /\ n = 0
    /\ image = <<>>
    /\ output = <<>>
    /\ hp = {}
    /\ age = 0
    /\ labels = <<>>
    /\ scale = 0
    /\ axis = 0
    /\ bounds = <<>>
    /\ axis_distances = <<>>
    /\ sampled = <<>>
    /\ distances = <<>>
    /\ nhood = <<>>
    /\ affinities = <<>>
    /\ relabeling = <<>>
    /\ previous = <<>>

NotebookFrame ==
    UNCHANGED <<shape, ret, wsVars, sdtVars, affVars, trace, snapshot, negVars,
                produced, test_dir>>

\* val_data = SDTDataset("tissuenet_data/test"); idx = np.random.randint(len(val_data));
\* image, sdt = val_data[idx]; plot
LookAtSdtPrediction ==
    /\ pc = "nb_sdt_look"
    /\ objects' = Append(objects, SDTDataset("none", FALSE))
    /\ \E k \in 0..(test_dir - 1) :
           /\ names' = [names EXCEPT !["val_data"] = Fresh(objects), !["idx"] = k]
           /\ drawn' = GetItem(objects', Fresh(objects), k)
    /\ plots' = Append(plots, drawn')
    /\ pc' = "nb_sdt_segment"
    /\ UNCHANGED iterator
    /\ NotebookFrame

\* idx = np.random.randint(len(val_data)); image, mask = val_data[idx]; plot
LookAtSdtSegmentation ==
    /\ pc = "nb_sdt_segment"
    /\ names["val_data"] # Unbound
    /\ \E k \in 0..(objects[names["val_data"]].num_samples - 1) :
           /\ names' = [names EXCEPT !["idx"] = k]
           /\ drawn' = GetItem(objects, names["val_data"], k)
    /\ plots' = Append(plots, drawn')
    /\ pc' = "nb_sdt_eval"
    /\ UNCHANGED <<objects, iterator>>
    /\ NotebookFrame

\* val_dataset = SDTDataset("tissuenet_data/test", return_mask=True);
\* val_dataloader = DataLoader(val_dataset, ...); the for loop takes the
\* iterator of the object the name val_dataloader is bound to
BuildSdtEvaluation ==
    /\ pc = "nb_sdt_eval"
    /\ objects' = WithLoader(objects, SDTDataset("none", TRUE))
    /\ names' = [names EXCEPT !["val_dataset"] = Fresh(objects),
                              !["val_dataloader"] = Fresh(objects) + 1]
    /\ names'["val_dataloader"] # Unbound
    /\ iterator' = [loader |-> names'["val_dataloader"], next |-> 0]
    /\ pc' = "nb_sdt_loop"
    /\ UNCHANGED <<drawn, plots>>
    /\ NotebookFrame

\* for idx, (image, mask, sdt) in enumerate(tqdm(val_dataloader)): one batch
SdtEvaluationStep ==
    /\ pc = "nb_sdt_loop"
    /\ IF iterator.next < objects[iterator.loader].num_samples
       THEN /\ drawn' = GetItem(objects, objects[iterator.loader].dataset,
                                iterator.next)
            /\ Len(drawn'.fields) = 3
            /\ names' = [names EXCEPT !["idx"] = iterator.next]
            /\ iterator' = [iterator EXCEPT !.next = @ + 1]
            /\ pc' = pc
       ELSE /\ iterator' = <<>>
            /\ pc' = "nb_aff_look"
            /\ UNCHANGED <<drawn, names>>
    /\ UNCHANGED <<objects, plots>>
    /\ NotebookFrame

\* val_data = AffinityDataset("tissuenet_data/test", v2.RandomCrop(256));
\* val_loader = DataLoader(val_data, ...); idx = np.random.randint(len(val_data));
\* image, mask = val_data[idx]; plot
LookAtAffinityPrediction ==
    /\ pc = "nb_aff_look"
    /\ objects' = WithLoader(objects, AffinityDataset("RandomCrop", FALSE))
    /\ \E k \in 0..(test_dir - 1) :
           /\ names' = [names EXCEPT !["val_data"] = Fresh(objects),
                                     !["val_loader"] = Fresh(objects) + 1,
                                     !["idx"] = k]
           /\ drawn' = GetItem(objects', Fresh(objects), k)
    /\ plots' = Append(plots, drawn')
    /\ pc' = "nb_aff_eval"
    /\ UNCHANGED iterator
    /\ NotebookFrame

\* val_dataset = AffinityDataset("tissuenet_data/test", return_mask=True);
\* val_loader = DataLoader(val_dataset, ...); the for loop takes the
\* iterator of the object the name val_dataloader is bound to
BuildAffinityEvaluation ==
    /\ pc = "nb_aff_eval"
    /\ objects' = WithLoader(objects, AffinityDataset("none", TRUE))
    /\ names' = [names EXCEPT !["val_dataset"] = Fresh(objects),
                              !["val_loader"] = Fresh(objects) + 1]
    /\ names'["val_dataloader"] # Unbound
    /\ iterator' = [loader |-> names'["val_dataloader"], next |-> 0]
    /\ pc' = "nb_aff_loop"
    /\ UNCHANGED <<drawn, plots>>
    /\ NotebookFrame

\* for idx, (image, mask, _) in enumerate(tqdm(val_dataloader)): one batch
AffinityEvaluationStep ==
    /\ pc = "nb_aff_loop"
    /\ IF iterator.next < objects[iterator.loader].num_samples
       THEN /\ drawn' = GetItem(objects, objects[iterator.loader].dataset,
                                iterator.next)
            /\ Len(drawn'.fields) = 3
            /\ names' = [names EXCEPT !["idx"] = iterator.next]
            /\ iterator' = [iterator EXCEPT !.next = @ + 1]
            /\ pc' = pc
       ELSE /\ iterator' = <<>>
            /\ pc' = "nb_end"
            /\ UNCHANGED <<drawn, names>>
    /\ UNCHANGED <<objects, plots>>
    /\ NotebookFrame

NextNotebook ==
    \/ LookAtSdtPrediction
    \/ LookAtSdtSegmentation
    \/ BuildSdtEvaluation
    \/ SdtEvaluationStep
    \/ LookAtAffinityPrediction
    \/ BuildAffinityEvaluation
    \/ AffinityEvaluationStep

SpecNotebook == InitNotebook /\ [][NextNotebook]_vars

(* ===================== watershed_from_boundary_distance ================ *)
Returned == pc = "ret"

\* the seed map as find_local_maxima returned it, before the offset
FoundSeeds == find_local_maxima(boundary_distances, shape, min_seed_distance).seeds

\* C1: a call in which find_local_maxima reports zero seeds never enters the
\* watershed: it returns the pair of an all-zero integer array of the field's
\* shape and the id_offset it was given, unchanged.
C1_ZeroSeedsReturnZerosAndOffset ==
    (pc # "call" /\ n = 0) =>
        \/ pc = "seeded"
        \/ /\ pc = "ret"
           /\ ret.kind = "tuple"
           /\ ret.seg = Zeros(shape)
           /\ ret.dtype = "uint64"
           /\ ret.offset = id_offset

C1_Witness ==
    /\ pc = "ret" /\ n = 0
    /\ ret.kind = "tuple" /\ ret.offset = id_offset /\ id_offset > 0
    /\ \E c \in Cells(shape) : inner_mask[c]

\* C2: on every path, the zero-seed path included, the call returns a single
\* integer-labeled array of the field's shape, 0 for background and positive
\* integers for instances.
C2_EveryPathReturnsOneArray ==
    Returned =>
        /\ ret.kind = "array"
        /\ DOMAIN ret.seg = Cells(shape)
        /\ \A c \in Cells(shape) : ret.seg[c] \in Nat

\* C3: every pixel where inner_mask is false is 0 in the returned segmentation,
\* also when a seed lies on it.
C3_OutsideMaskIsBackground ==
    Returned => \A c \in Cells(shape) : ~inner_mask[c] => ret.seg[c] = 0

C3_Witness ==
    /\ Returned /\ ret.kind = "array"
    /\ \E c \in Cells(shape) : seeds[c] # 0 /\ ~inner_mask[c]
    /\ \E c \in Cells(shape) : ret.seg[c] # 0

\* C4: with at least one seed, every positive label of the returned
\* segmentation is s + id_offset for a seed id s in 1..n, every seed pixel
\* inside the mask keeps its s + id_offset, and the zeros of the seed map stay 0.
C4_LabelsAreSeedIdPlusOffset ==
    (pc \in {"offset", "ret"} /\ n # 0) =>
        \A found \in {FoundSeeds} : \A c \in Cells(shape) :
              /\ IF found[c] = 0 THEN seeds[c] = 0
                 ELSE seeds[c] = found[c] + id_offset
              /\ Returned =>
                    /\ ret.seg[c] > 0 =>
                           \E s \in 1..n : ret.seg[c] = s + id_offset
                    /\ (inner_mask[c] /\ found[c] # 0) =>
                           ret.seg[c] = found[c] + id_offset

C4_Witness ==
    /\ Returned /\ n >= 2 /\ id_offset > 0
    /\ \E found \in {FoundSeeds} :
           /\ \E c \in Cells(shape) : found[c] = 0 /\ ret.seg[c] = 2 + id_offset
           /\ \E c \in Cells(shape) : found[c] # 0 /\ ~inner_mask[c]

(* ========================== find_local_maxima ========================== *)
Seeded == pc = "seeded"

Finite(field) == \A c \in DOMAIN field : field[c] # NaN

\* the pixels the maximum filter of the given size reads around c
Window(c, sh, size) ==
    { <<Reflect(c[1] + di, sh[1]), Reflect(c[2] + dj, sh[2])>> :
          di \in (-(size \div 2))..(size - (size \div 2) - 1),
          dj \in (-(size \div 2))..(size - (size \div 2) - 1) }

Chebyshev(a, b) ==
    IF Abs(a[1] - b[1]) >= Abs(a[2] - b[2]) THEN Abs(a[1] - b[1]) ELSE Abs(a[2] - b[2])

UnitPeaks == {c \in Cells(shape) : boundary_distances[c] = 1}

\* zero everywhere except two isolated unit peaks at least the minimum
\* distance apart
TwoSeparatedPeaks ==
    /\ \A c \in Cells(shape) : boundary_distances[c] \in {0, 1}
    /\ Cardinality(UnitPeaks) = 2
    /\ \A a, b \in UnitPeaks :
           a # b => Chebyshev(a, b) >= 2 /\ Chebyshev(a, b) >= min_seed_distance

\* every zero of the field has a peak inside its filter window
BackgroundCovered ==
    \A c \in Cells(shape) \ UnitPeaks :
        Window(c, shape, min_seed_distance) \cap UnitPeaks # {}

\* C8 as stated: two separated unit peaks in a zero background give exactly 2
\* seeds, whatever the array size and the placement of the peaks.
C8_TwoPeaksAlwaysTwoSeeds ==
    (Seeded /\ TwoSeparatedPeaks) => n = 2

\* C8, amended: two separated unit peaks give exactly 2 seeds, one on each
\* peak, when every zero of the field has a peak inside its filter window.
C8_TwoPeaksTwoSeedsWhenCovered ==
    (Seeded /\ TwoSeparatedPeaks /\ BackgroundCovered) =>
        /\ n = 2
        /\ \A c \in Cells(shape) : seeds[c] # 0 <=> c \in UnitPeaks
        /\ {seeds[c] : c \in UnitPeaks} = {1, 2}

C8_Witness ==
    /\ Seeded /\ TwoSeparatedPeaks /\ BackgroundCovered
    /\ min_seed_distance >= 2
    /\ n = 2

ConstantField ==
    \A c, d \in Cells(shape) : boundary_distances[c] = boundary_distances[d]

\* C9 as stated: a constant field gives a seed count of 0 and the watershed
\* then returns the all-zero segmentation.
C9_ConstantFieldNoSeeds ==
    (ConstantField /\ pc # "call") =>
        /\ n = 0
        /\ Returned => ret.seg = Zeros(shape)

\* C9, amended: a constant field of finite values gives a seed count of 1, the
\* one seed covering the whole array, and the watershed then returns the label
\* 1 + id_offset on exactly the pixels of the inner mask.
C9_ConstantFieldOneSeed ==
    (ConstantField /\ Finite(boundary_distances) /\ pc # "call") =>
        /\ n = 1
        /\ Seeded => seeds = [c \in Cells(shape) |-> 1]
        /\ Returned =>
              /\ ret.kind = "array"
              /\ ret.seg = [c \in Cells(shape) |->
                               IF inner_mask[c] THEN 1 + id_offset ELSE 0]

C9_Witness ==
    /\ Returned /\ ConstantField /\ Finite(boundary_distances)
    /\ n = 1 /\ id_offset > 0
    /\ Cardinality(Cells(shape)) >= 3
    /\ \E c, d \in Cells(shape) : inner_mask[c] /\ ~inner_mask[d]

\* a local-maximum candidate: no value in its filter window is larger
Candidate(c) ==
    /\ boundary_distances[c] # NaN
    /\ \A w \in Window(c, shape, min_seed_distance) :
           boundary_distances[w] <= boundary_distances[c]

Candidates == {c \in Cells(shape) : Candidate(c)}

SharesEdge(a, b) ==
    \/ a[1] = b[1] /\ (a[2] = b[2] + 1 \/ b[2] = a[2] + 1)
    \/ a[2] = b[2] /\ (a[1] = b[1] + 1 \/ b[1] = a[1] + 1)

\* a and b lie in the same connected candidate region: b is in every set of
\* candidates that holds a and is closed under edge neighbourhood
SameRegion(a, b, cands) ==
    \A S \in SUBSET cands :
        (a \in S /\ \A x \in S : \A y \in cands : SharesEdge(x, y) => y \in S)
            => b \in S

\* C10: the seed map has the field's shape, is 0 off the candidates, gives two
\* candidates the same id exactly when they lie in the same connected region,
\* and uses exactly the ids 1..number_of_seeds, one per region.
C10_SeedMapLabelsRegions ==
    Seeded =>
        \A cands \in {Candidates} :
            /\ DOMAIN seeds = Cells(shape)
            /\ \A c \in Cells(shape) : seeds[c] = 0 <=> c \notin cands
            /\ \A a, b \in cands :
                   seeds[a] = seeds[b] <=> SameRegion(a, b, cands)
            /\ {seeds[c] : c \in cands} = 1..n

C10_Witness ==
    /\ Seeded /\ n = 2 /\ shape = <<2, 2>>
    /\ \E a, b \in Candidates :
           /\ Chebyshev(a, b) = 1 /\ ~SharesEdge(a, b)
           /\ seeds[a] # seeds[b]
    /\ \E c \in Cells(shape) : seeds[c] = 0

(* ============================= compute_sdt ============================ *)
SdtDone == pc = "sdt_done"

Foreground == {c \in Cells(shape) : labels[c] # 0}

\* one instance whose pixels fill an axis-parallel rectangle
SingleConvexRegion ==
    /\ Foreground # {}
    /\ \A a, b \in Foreground : labels[a] = labels[b]
    /\ \A a, b \in Foreground : \A c \in Cells(shape) :
           ( /\ (a[1] <= c[1] /\ c[1] <= b[1]) \/ (b[1] <= c[1] /\ c[1] <= a[1])
             /\ (a[2] <= c[2] /\ c[2] <= b[2]) \/ (b[2] <= c[2] /\ c[2] <= a[2]) )
               => c \in Foreground

\* C5: for a label mask with a single convex foreground region, the output is
\* strictly positive at every labeled pixel and strictly negative at every
\* background pixel.
C5_SignMatchesMembership ==
    (SdtDone /\ SingleConvexRegion) =>
        \A c \in Cells(shape) :
            IF labels[c] # 0 THEN ret.seg[c] > 0 ELSE ret.seg[c] < 0

\* the two positions np.pad adds along the axis
PadCells == {c \in Cells(PadShape(shape, axis)) :
                Along(c, axis) = 0 \/ Along(c, axis) = shape[axis + 1]}

\* the distance of pixel c to the nearer domain edge along the axis being
\* processed, from pixel centre to edge of the padded indicator
EdgeDistance(c, ax) ==
    LET k == Along(c, ax)
        m == shape[ax + 1] - 1 - k
    IN  (IF k <= m THEN k ELSE m) * Milli + (Milli \div 2)

\* C6 as stated: the pad carries the value that means "is boundary" (0, labels
\* differ), the two edge positions are boundary locations at distance 0, and
\* no pixel's distance along the axis exceeds its distance to the domain edge.
C6_PadIsBoundary ==
    /\ pc \in {"sdt_edt", "sdt_sample"} => \A c \in PadCells : bounds[c] = FALSE
    /\ pc = "sdt_sample" =>
           /\ \A c \in PadCells : axis_distances[c] = 0
           /\ \A c \in Cells(shape) :
                  map_coordinates(axis_distances, shape, axis)[c] <= EdgeDistance(c, axis)

\* C6, amended: the pad carries 1, the value that means "labels equal, no
\* boundary"; it brings the indicator to n + 1 positions along the axis, and
\* the two edge positions are never boundary locations: their distance is at
\* least 1.
C6_PadIsNotBoundary ==
    /\ pc \in {"sdt_edt", "sdt_sample"} =>
           /\ DOMAIN bounds = Cells(PadShape(shape, axis))
           /\ \A c \in PadCells : bounds[c] = TRUE
    /\ pc = "sdt_sample" => \A c \in PadCells : axis_distances[c] >= Milli

C6_Witness ==
    /\ pc = "sdt_sample"
    /\ \E z \in Cells(PadShape(shape, axis)) : ~bounds[z]
    /\ \E c \in PadCells : axis_distances[c] >= 2 * Milli
    /\ \E c \in Cells(shape) :
           map_coordinates(axis_distances, shape, axis)[c] > EdgeDistance(c, axis)

\* C7 as stated: the result has the mask's shape and every value lies strictly
\* between -1 and 1; for an all-zero mask every value is <= 0.
C7_StrictlyInsideUnitInterval ==
    SdtDone =>
        /\ DOMAIN ret.seg = Cells(shape)
        /\ \A c \in Cells(shape) : -TanhOne < ret.seg[c] /\ ret.seg[c] < TanhOne
        /\ Foreground = {} => \A c \in Cells(shape) : ret.seg[c] <= 0

\* C7, amended: no call stops before it returns; the result has the mask's
\* shape and every value is finite and lies in the closed interval [-1, 1];
\* for an all-zero mask every value is <= 0.
C7_InsideClosedUnitInterval ==
    /\ pc \in {"sdt_loop", "sdt_edt", "sdt_sample", "sdt_flip", "sdt_return"} =>
           ENABLED NextSdt
    /\ SdtDone =>
           /\ DOMAIN ret.seg = Cells(shape)
           /\ \A c \in Cells(shape) :
                  /\ ret.seg[c] \notin {NaN, Inf, -Inf}
                  /\ -TanhOne <= ret.seg[c] /\ ret.seg[c] <= TanhOne
           /\ Foreground = {} => \A c \in Cells(shape) : ret.seg[c] <= 0

C7_Witness ==
    /\ SdtDone
    /\ Foreground = {}
    /\ \E c \in Cells(shape) : ret.seg[c] = -TanhOne
    /\ \E c \in Cells(shape) : ret.seg[c] > -TanhOne

(* ================== two basins behind a masked-out gap ================= *)
MaskCells == {c \in Cells(shape) : inner_mask[c]}

\* the pixels of the mask that pixel c reaches through shared edges
RegionOf(c) == {d \in MaskCells : SameRegion(c, d, MaskCells)}

MaskRegions == {RegionOf(c) : c \in MaskCells}

SeedIdsIn(R) == {seeds[c] : c \in R} \ {0}

LabelsIn(R) == {ret.seg[c] : c \in R}

\* the mask is two regions, each holding the pixels of one seed, and the two
\* seeds are different
TwoSeededRegions ==
    /\ Cardinality(MaskRegions) = 2
    /\ \A R \in MaskRegions : Cardinality(SeedIdsIn(R)) = 1
    /\ \A R, Q \in MaskRegions : R # Q => SeedIdsIn(R) # SeedIdsIn(Q)

\* C11: with an inner mask of two regions separated by masked-out pixels, each
\* holding one seeded basin, the segmentation has exactly two distinct positive
\* labels, every labeled pixel lies inside the mask, each region is filled by
\* the label of its own seed and no label occurs in both regions.
C11_TwoBasinsTwoLabels ==
    (Returned /\ n # 0) =>
        \A regions \in {MaskRegions} :
            TwoSeededRegions =>
                /\ Cardinality({ret.seg[c] : c \in Cells(shape)} \ {0}) = 2
                /\ \A c \in Cells(shape) :
                       ret.seg[c] # 0 => ret.seg[c] > 0 /\ inner_mask[c]
                /\ \A R \in regions : LabelsIn(R) = SeedIdsIn(R)
                /\ \A R, Q \in regions : R # Q => LabelsIn(R) \cap LabelsIn(Q) = {}

C11_Witness ==
    /\ Returned /\ n >= 2 /\ id_offset > 0
    /\ TwoSeededRegions
    /\ \E R \in MaskRegions : \E c \in R : FoundSeeds[c] = 0
    /\ \E c \in Cells(shape) : ~inner_mask[c] /\ seeds[c] # 0

(* ======================= field and mask shapes ========================= *)
ShapeMismatch == DOMAIN inner_mask # Cells(shape)

\* C12 as stated: every call whose mask shape differs from the field's shape
\* fails with a shape-mismatch error and returns no segmentation, whatever the
\* number of seeds, zero seeds included.
C12_MismatchAlwaysFails ==
    (Returned /\ ShapeMismatch) => ret.kind = "error"

\* C12, amended: a call whose mask shape differs from the field's shape fails
\* with the watershed's ValueError when at least one seed was found and never
\* starts flooding; with zero seeds it returns the all-zero array and the
\* id_offset without having read the mask.
C12_MismatchFailsWhenSeeded ==
    ShapeMismatch =>
        /\ pc \notin {"flood"}
        /\ Returned =>
              IF n = 0
              THEN ret = [kind |-> "tuple", seg |-> Zeros(shape),
                          dtype |-> "uint64", offset |-> id_offset]
              ELSE ret = ValueError

C12_Witness ==
    /\ Returned /\ ShapeMismatch /\ n # 0
    /\ ret = ValueError
    /\ Cardinality(DOMAIN inner_mask) = Cardinality(Cells(shape))

(* ========================= compute_affinities ========================== *)
AffDone == pc = "aff_done"

\* C13: the affinities of a mask and of the same mask with its positive ids
\* renamed (0 kept) are equal; there is one channel per offset, each of the
\* mask's shape with values 0 and 1, and a background pixel is 0 in every
\* channel.
C13_AffinitiesIgnoreIds ==
    AffDone =>
        /\ previous # <<>> => affinities = previous
        /\ DOMAIN affinities = 1..Len(nhood)
        /\ \A e \in 1..Len(nhood) :
               /\ DOMAIN affinities[e] = Cells(shape)
               /\ \A c \in Cells(shape) :
                      /\ affinities[e][c] \in {0, 1}
                      /\ labels[c] = 0 => affinities[e][c] = 0

C13_Witness ==
    /\ AffDone /\ previous # <<>>
    /\ nhood = NotebookOffsets
    /\ \E c \in Cells(shape) : labels[c] > MaxLabel
    /\ \E a, b \in Cells(shape) : 0 < labels[a] /\ labels[a] < labels[b]
    /\ \E e \in 1..Len(nhood) : \E a, b \in Cells(shape) :
           affinities[e][a] = 1 /\ affinities[e][b] = 0 /\ labels[b] # 0

(* ========================= the 4x4 scenario ============================ *)
\* the square lies in the middle of the 4x4 mask, background all around it
CentredSquare == shape = <<4, 4>> /\ labels = SquareMask(shape, <<1, 1>>, 7)

\* the squared distance of a pixel to the nearest pixel of the instance
ToSquare(c) == MinOf({SquaredDistance(c, f) : f \in Foreground})

\* the signed distance field of the scenario, as returned and as passed on
SdtField == IF SdtDone THEN ret.seg ELSE boundary_distances

\* C14: on the 4x4 mask with a centred 2x2 square of value 7, compute_sdt is
\* positive on the square and negative elsewhere, larger in magnitude farther
\* from the square; find_local_maxima with min_dist_between_points = 1 finds
\* exactly 1 seed; the watershed with inner_mask = sdt > 0 returns exactly one
\* positive label and its pixels are exactly the square's four.
C14_SquareEndToEnd ==
    CentredSquare =>
        /\ pc \in {"sdt_done", "call", "seeded", "offset", "flood", "ret"} =>
              /\ \A c \in Cells(shape) :
                     IF labels[c] # 0 THEN SdtField[c] > 0 ELSE SdtField[c] < 0
              /\ \A a, b \in Cells(shape) \ Foreground :
                     ToSquare(a) < ToSquare(b) => -SdtField[a] < -SdtField[b]
        /\ pc \in {"call", "seeded", "offset", "flood", "ret"} =>
              inner_mask = [c \in Cells(shape) |-> c \in Foreground]
        /\ (Seeded /\ min_seed_distance = 1) => n = 1
        /\ Seeded => n # 0
        /\ (Returned /\ min_seed_distance = 1) =>
              /\ ret.kind = "array"
              /\ Cardinality({ret.seg[c] : c \in Cells(shape)} \ {0}) = 1
              /\ {c \in Cells(shape) : ret.seg[c] > 0} = Foreground
              /\ Cardinality(Foreground) = 4

C14_Witness ==
    /\ CentredSquare /\ Returned /\ min_seed_distance = 1
    /\ scale = 10 * DefaultScale
    /\ id_offset = 0
    /\ n = 1
    /\ \E c \in Cells(shape) : ret.seg[c] = 1

(* ===================== calls without side effects ====================== *)
Repeated == previous # <<>>

Flooding == pc \in {"flood", "ret"} /\ n # 0

\* C16 as stated: for every field, seed map and inner mask the landscape
\* boundary_distances.max() - boundary_distances gives the same segmentation
\* as -boundary_distances, the two ordering the pixels identically.
C16_SameAsNegatedField ==
    Flooding =>
        /\ output = output_neg
        /\ \A a, b \in Cells(shape) :
               image[a] < image[b] <=> image_neg[a] < image_neg[b]

\* the subtraction keeps different field values different
SubtractionExact ==
    \A a, b \in Cells(shape) :
        boundary_distances[a] # boundary_distances[b] => image[a] # image[b]

\* C16, amended: the landscape of the code never orders two pixels against the
\* negated field, but rounding can make pixels of different field values tie;
\* where the subtraction keeps different values different the two landscapes
\* order the pixels identically, the queues hold the same pixels at every turn
\* and the segmentations are the same, and both runs end together.
C16_SameWhereSubtractionExact ==
    Flooding =>
        /\ \A a, b \in Cells(shape) :
               image_neg[a] < image_neg[b] => image[a] <= image[b]
        /\ \A c \in Cells(shape) : image[c] >= 0
        /\ hp = {} <=> hp_neg = {}
        /\ SubtractionExact =>
               /\ output = output_neg
               /\ {e.index : e \in hp} = {e.index : e \in hp_neg}
               /\ \A a, b \in Cells(shape) :
                      image[a] < image[b] <=> image_neg[a] < image_neg[b]

C16_Witness ==
    /\ Returned /\ n >= 2 /\ SubtractionExact
    /\ ret.seg = output_neg
    /\ \E c \in Cells(shape) : boundary_distances[c] = Big
    /\ Cardinality({boundary_distances[c] : c \in Cells(shape)}) >= 3
    /\ \E c \in Cells(shape) : seeds[c] = 0 /\ ret.seg[c] # 0

(* ================== compute_sdt and the instance ids =================== *)
SecondSdtDone == SdtDone /\ previous # <<>>

\* the second mask is the first one under a one-to-one renaming of its
\* positive ids: the same pixels are 0, equal ids stay equal, different ids
\* stay different
InjectivelyRelabeled ==
    /\ \A c \in Cells(shape) : (labels[c] = 0) <=> (previous.labels[c] = 0)
    /\ \A a, b \in Cells(shape) :
           (labels[a] = labels[b]) <=> (previous.labels[a] = previous.labels[b])

SameZeros == \A c \in Cells(shape) : (labels[c] = 0) <=> (previous.labels[c] = 0)

\* C17: compute_sdt reads the mask only through the equality of adjacent
\* labels and through which pixels are 0: two masks with the same zero
\* pixels and the same equal neighbours (an injective relabeling of the
\* positive ids among them) give the same output, and where only the equal
\* neighbours agree (an instance in place of background next to another
\* instance) every pixel keeps its distance to the boundary and only the
\* sign of the pixels that changed between 0 and an id differs.
C17_OnlyAdjacencyAndZeros ==
    SecondSdtDone =>
        /\ SameZeros => ret.seg = previous.out
        /\ \A c \in Cells(shape) :
               ret.seg[c] = IF (labels[c] = 0) <=> (previous.labels[c] = 0)
                            THEN previous.out[c] ELSE -previous.out[c]

\* C17 witness: a second call has returned for an injectively relabeled mask
\* with other ids, in which two instances with different ids touch, and the
\* output is not constant.
C17_Witness ==
    /\ SecondSdtDone
    /\ InjectivelyRelabeled
    /\ labels # previous.labels
    /\ \E c \in Cells(shape) : \E ax \in {0, 1} :
           /\ Along(c, ax) > 0
           /\ labels[c] # 0 /\ labels[Before(c, ax)] # 0
           /\ labels[c] # labels[Before(c, ax)]
           /\ labels[c] > MaxLabel
    /\ \E a, b \in Cells(shape) : ret.seg[a] # ret.seg[b]

(* ===================== ids across a chain of tiles ===================== *)
\* C18: across a chain of calls on separate tiles in which every offset is at
\* least the largest label produced so far, the positive labels of different
\* calls are pairwise disjoint and lie above the call's offset, the choices
\* "previous offset plus previous seed count" and "the offset a zero-seed
\* call handed back" keep every offset at or above the labels before it, and
\* a zero-seed call hands back its id_offset unchanged.
C18_ChainKeepsIdsApart ==
    /\ \A i, j \in 1..Len(produced) :
           i < j => /\ produced[i].labels \cap produced[j].labels = {}
                    /\ \A l \in produced[i].labels : l <= produced[j].offset
    /\ \A i \in 1..Len(produced) :
           /\ \A l \in produced[i].labels :
                  produced[i].offset < l /\ l <= produced[i].offset + produced[i].seeds
           /\ produced[i].seeds = 0 =>
                  produced[i].handed = produced[i].offset /\ produced[i].labels = {}
    /\ (pc = "ret" /\ n = 0) => (ret.kind = "tuple" /\ ret.offset = id_offset)

\* C18 witness: a chain of three calls has ended in which a call with two
\* labels was followed by a zero-seed call, whose handed-back offset the
\* third call, itself producing labels, was given.
C18_Witness ==
    /\ pc = "chain_done"
    /\ Len(produced) = MaxTiles
    /\ Cardinality(produced[1].labels) = 2
    /\ produced[2].seeds = 0 /\ produced[2].offset > 0
    /\ produced[3].offset = produced[2].handed
    /\ produced[3].labels # {}

(* ================= seeds of a field of finite values =================== *)
\* the pixels holding the largest value of the field
GlobalMaxima ==
    {c \in Cells(shape) :
        \A d \in Cells(shape) : boundary_distances[d] <= boundary_distances[c]}

\* C19: for every non-empty field of finite values find_local_maxima returns
\* at least one seed, every pixel holding the global maximum being a seed
\* pixel, and the call never takes the zero-seed return.
C19_FiniteFieldHasSeed ==
    (Finite(boundary_distances) /\ pc # "call") =>
        /\ n >= 1
        /\ Seeded => \A c \in GlobalMaxima : seeds[c] # 0
        /\ Returned => ret.kind = "array"

\* C19 witness: a call on a finite field that is not constant has returned
\* through the watershed although every seed lay outside the mask and the
\* segmentation is all zero.
C19_Witness ==
    /\ Returned
    /\ Finite(boundary_distances)
    /\ ~ConstantField
    /\ n >= 2
    /\ ret.kind = "array"
    /\ ret.seg = Zeros(shape)
    /\ \E c \in Cells(shape) : inner_mask[c]

(* ==================== the affinity evaluation loop ===================== *)
\* the affinity evaluation loop has drawn a batch
AffinityBatchDrawn ==
    pc = "nb_aff_loop" /\ iterator # <<>> /\ iterator.next > 0

\* C20: with the cells run in order, every batch of the affinity evaluation
\* loop comes from the loader that cell has built, the one bound to
\* val_loader over AffinityDataset("tissuenet_data/test", return_mask=True),
\* and is a triple (image, mask, affinity target); it never comes from a
\* loader over an SDTDataset.
C20_AffinityLoopUsesOwnLoader ==
    AffinityBatchDrawn =>
        /\ iterator.loader = names["val_loader"]
        /\ objects[iterator.loader].dataset = names["val_dataset"]
        /\ objects[drawn.dataset].class = "AffinityDataset"
        /\ objects[drawn.dataset].return_mask
        /\ drawn.fields = <<"image", "mask", "aff_mask">>

====
